---- MODULE Spec2Model ----
(***************************************************************************)
(* The routing core of the multi-agent assistant: the supervisor (Router)  *)
(* step supervisor_node of agents/supervisor.py, the handler step          *)
(* agent_node of graph/agents_factory.py, and a conversation that threads  *)
(* the state returned by one step into the next, started the way main.py   *)
(* starts it (one user message); the graph build_graph wires             *)
(* (graph/graph_builder.py); and the event path: process_event of          *)
(* worker_rq.py and EventDispatcher of dispatcher/event_dispatcher.py.     *)
(*                                                                         *)
(* Message contents are strings; str.strip, str.lower and the substring    *)
(* test are computed character by character.  The classifier (an LLM) and  *)
(* the agents (LLM executors) are external: their results are inputs drawn *)
(* from bounded sets.                                                      *)
(***************************************************************************)
EXTENDS Integers, Sequences, FiniteSets, TLC

VARIABLES
    state,   \* the conversation state dict: messages, next, communication_type
    pc,      \* whose turn it is: "supervisor", "agent", "done", "fault", "raised"
    call,    \* what the last supervisor_node call read, computed and returned
    steps,   \* number of supervisor_node calls made in this conversation
    others,  \* number of handler replies so far that were not the sentinel
    declined, \* the handlers that have replied exactly the sentinel so far
    ev,      \* one process_event / EventDispatcher.dispatch call: its inputs,
             \* position, handler calls made and their effects
    runs,    \* two graph.invoke calls in flight: the state dict each works on
    mail,    \* one process_incoming_email call: position, emails handed to SMTP
    bot,     \* one process_text_internal call of the e-commerce bot
    shop     \* the e-commerce database and the confirm_order calls in flight

vars == <<state, pc, call, steps, others, declined, ev, runs, mail, bot, shop>>

\* the variables outside the conversation and the event path
apart == <<runs, mail, bot, shop>>

----------------------------------------------------------------------------
(* Python values *)

\* Python's None (also JSON null after json.loads)
None == "<None>"

\* a key that is not in a dict
Absent == "<absent>"

----------------------------------------------------------------------------
(* str methods, computed on the characters *)

Char(s, i) == SubSeq(s, i, i)

IsSpace(c) == c \in {" ", "\t", "\n"}

RECURSIVE lstrip(_)
lstrip(s) ==
    IF Len(s) > 0 /\ IsSpace(Char(s, 1)) THEN lstrip(SubSeq(s, 2, Len(s))) ELSE s

RECURSIVE rstrip(_)
rstrip(s) ==
    IF Len(s) > 0 /\ IsSpace(Char(s, Len(s)))
    THEN rstrip(SubSeq(s, 1, Len(s) - 1))
    ELSE s

\* str.strip()
strip(s) == rstrip(lstrip(s))

UpperChars == "ABCDEFGHIJKLMNOPQRSTUVWXYZ"

LowerChars == "abcdefghijklmnopqrstuvwxyz"

\* the lowercase letter of each uppercase letter
LowerOf ==
    [c \in {Char(UpperChars, i) : i \in 1..Len(UpperChars)} |->
        Char(LowerChars, CHOOSE i \in 1..Len(UpperChars) : Char(UpperChars, i) = c)]

lower_char(c) == IF c \in DOMAIN LowerOf THEN LowerOf[c] ELSE c

\* str.lower()
RECURSIVE lower(_)
lower(s) ==
    IF Len(s) = 0 THEN "" ELSE lower_char(Char(s, 1)) \o lower(SubSeq(s, 2, Len(s)))

\* Python's `sub in s` on strings
contains(sub, s) ==
    \E i \in 1..(Len(s) - Len(sub) + 1) : SubSeq(s, i, i + Len(sub) - 1) = sub

----------------------------------------------------------------------------
(* agents/supervisor.py: module constants *)

members == <<"customer_support", "sales_manager", "technical_support", "diagnostic_agent">>

MemberSet == {members[i] : i \in 1..Len(members)}

FINISH == "FINISH"

options == <<FINISH>> \o members

NOT_ME == "NOT_ME"

RoutingInstruction == "next: diagnostic_agent"

message_history == 5

ScopeApology == "I'm sorry, but your request is outside the scope of our available services."

NotUnderstood == "Sorry, I couldn't understand the request."

\* (the source spells the apostrophe as U+2019)
NoResponse == "Sorry, I couldn't generate a response."

DIRECT_API == "CommunicationType.DIRECT_API"

\* HumanMessage(content=..., name=...); name defaults to None
HumanMessage(content, name) == [content |-> content, name |-> name]

\* seq[-k:]
LastK(seq, k) == IF Len(seq) <= k THEN seq ELSE SubSeq(seq, Len(seq) - k + 1, Len(seq))

\* dict.get(key, default)
dict_get(d, key, default) == IF d[key] = Absent THEN default ELSE d[key]

----------------------------------------------------------------------------
(* The classifier result raw_output.additional_kwargs.get("function_call"). *)
(* function_call is None, an empty dict, a dict without "arguments", or a   *)
(* dict with "arguments".  The arguments text is represented by what        *)
(* json.loads makes of it: invalid JSON, a JSON value that is not an        *)
(* object, or an object whose "next" and "answer" are absent, null or a     *)
(* string.                                                                  *)

RawOutput(fc, json, nxt, ans) ==
    [function_call |-> fc, json |-> json, next |-> nxt, answer |-> ans]

NoOutput == RawOutput(Absent, Absent, Absent, Absent)

\* json.loads(text): the parsed value, or the exception it raises
json_loads(raw) ==
    LET value == [next |-> raw.next, answer |-> raw.answer]
    IN  IF raw.json = "invalid"
        THEN [raised |-> "JSONDecodeError", is_dict |-> FALSE, value |-> value]
        ELSE [raised |-> None, is_dict |-> raw.json = "object", value |-> value]

\* a slip: the sender is not looked at
IsNotMe_any_sender(msg) == msg.content = NOT_ME

\* hasattr(msg, 'name') and msg.name in members and msg.content == "NOT_ME"
\* (every message is a HumanMessage, which has a name attribute)
IsNotMe(msg) == msg.name \in MemberSet /\ msg.content = NOT_ME

\* sum(1 for msg in messages if ...)
RECURSIVE not_me_count(_)
not_me_count(messages) ==
    IF messages = <<>> THEN 0
    ELSE (IF IsNotMe(Head(messages)) THEN 1 ELSE 0) + not_me_count(Tail(messages))

\* a slip: > for >=
LoopExhausted_strict(tally) == tally > Len(members)

\* if not_me_count >= len(members)
LoopExhausted(tally) == tally >= Len(members)

\* the last message is from an agent and carries the routing instruction
HasRoutingInstruction(last_message) ==
    /\ last_message.name \in MemberSet
    /\ contains(RoutingInstruction, lower(last_message.content))

\* if not function_call or "arguments" not in function_call
InvalidOutput(function_call) == function_call \in {None, "empty", "no_arguments"}

\* a slip: a delegation target wins over the answer
AnswersDirectly_unless_delegated(answer, next_value) ==
    answer # "" /\ next_value \notin MemberSet

\* a slip: the answer is dropped when the decision is to finish
AnswersDirectly_unless_finish(answer, next_value) ==
    answer # "" /\ next_value # FINISH

\* if answer:
AnswersDirectly(answer, next_value) == answer # ""

\* the bookkeeping of one supervisor_node call
Call(path, in_messages, arg_messages, tally_computed, tally, invoked, input, raw, raised, ret) ==
    [call |-> [path |-> path, in_messages |-> in_messages, arg_messages |-> arg_messages,
               tally_computed |-> tally_computed, not_me_count |-> tally,
               classifier_invoked |-> invoked, classifier_input |-> input,
               raw_output |-> raw, raised |-> raised],
     ret |-> ret]

NoReturn == [messages |-> <<>>, next |-> None, communication_type |-> None]

\* a slip: [:message_history] for [-message_history:]
Truncate_head(messages) ==
    IF Len(messages) > message_history THEN SubSeq(messages, 1, message_history) ELSE messages

\* the history supervisor_node keeps in state["messages"] before classifying
Truncate(messages) ==
    IF Len(messages) > message_history THEN LastK(messages, message_history) ELSE messages

\* what supervisor_node does with the parsed decision (lines 122-137)
Decide(st, bounded, raw, tally) ==
    LET parsed == json_loads(raw)
        c(path, raised, ret) ==
            Call(path, st.messages, bounded, TRUE, tally, TRUE, bounded, raw, raised, ret)
    IN  IF parsed.raised # None THEN c("raise", parsed.raised, NoReturn)
        ELSE IF ~parsed.is_dict THEN c("raise", "AttributeError", NoReturn)
        ELSE LET args == parsed.value
                 next_value == dict_get(args, "next", None)
                 answer_raw == dict_get(args, "answer", "")
             IN  IF answer_raw = None THEN c("raise", "AttributeError", NoReturn)
                 ELSE LET answer == strip(answer_raw)
                      IN  IF AnswersDirectly(answer, next_value)
                          THEN c("answer", None,
                                 [st EXCEPT !.messages =
                                      bounded \o <<HumanMessage(answer, "supervisor")>>,
                                  !.next = FINISH])
                          ELSE c("route", None,
                                 [st EXCEPT !.messages = bounded,
                                            !.next = next_value,
                                            !.communication_type = DIRECT_API])

\* supervisor_node(state), with the classifier's result as a parameter
supervisor_node(st, raw) ==
    LET last_message == st.messages[Len(st.messages)]
        tally == not_me_count(st.messages)
        bounded == Truncate(st.messages)
    IN  IF HasRoutingInstruction(last_message)
        THEN Call("handoff", st.messages, st.messages, FALSE, 0, FALSE, <<>>, NoOutput,
                  None, [st EXCEPT !.next = "diagnostic_agent"])
        ELSE IF LoopExhausted(tally)
        THEN Call("loop", st.messages, st.messages, TRUE, tally, FALSE, <<>>, NoOutput,
                  None,
                  [st EXCEPT !.messages =
                       st.messages \o <<HumanMessage(ScopeApology, "supervisor")>>,
                   !.next = FINISH])
        ELSE IF InvalidOutput(raw.function_call)
        THEN Call("malformed", st.messages, bounded, TRUE, tally, TRUE, bounded, raw,
                  None,
                  [st EXCEPT !.messages =
                       bounded \o <<HumanMessage(NotUnderstood, "supervisor")>>,
                   !.next = FINISH])
        ELSE Decide(st, bounded, raw, tally)

----------------------------------------------------------------------------
(* graph/agents_factory.py *)

\* agent.invoke(state) results: the executor raises, or returns a dict whose
\* "output" is a string or something else (None)
AgentResult(kind, output) == [kind |-> kind, output |-> output]

\* a slip: name=name left out of the message
agent_node_unnamed(result, name) ==
    LET output == IF result.output = None THEN NoResponse ELSE result.output
    IN  [messages |-> <<HumanMessage(output, None)>>]

\* agent_node(state, agent, name): the partial state it returns
agent_node(result, name) ==
    LET output == IF result.output = None THEN NoResponse ELSE result.output
    IN  [messages |-> <<HumanMessage(output, name)>>]

----------------------------------------------------------------------------
(* graph/graph_builder.py *)

END == "__end__"

\* workflow.set_entry_point("supervisor")
entry_point == "supervisor"

\* agents = ["customer_support", "sales_manager", "tachnical_support"]
agents == <<"customer_support", "sales_manager", "tachnical_support">>

AgentNodes == {agents[i] : i \in DOMAIN agents}

\* the name each node's agent_node is bound to by functools.partial
\* (customer_node, sales_node, tech_node), by the key the node is added under
NodeName ==
    [node \in AgentNodes |->
        CASE node = "customer_support" -> "customer_support"
          [] node = "sales_manager" -> "sales_manager"
          [] node = "tachnical_support" -> "tachnical_support"]

\* for member in agents: workflow.add_edge(member, "supervisor")
edges == {<<agents[i], "supervisor">> : i \in DOMAIN agents}

\* conditional_map = {k: k for k in agents}; conditional_map["FINISH"] = END
conditional_map == [k \in AgentNodes \cup {FINISH} |-> IF k = FINISH THEN END ELSE k]

\* a slip: messages declared without the reducer, so a node's update replaces them
operator_add_replace(old, new) == new

\* messages: Annotated[Sequence[BaseMessage], operator.add]
operator_add(old, new) == old \o new

\* add_conditional_edges("supervisor", lambda x: x["next"], conditional_map):
\* where the run goes after the supervisor node; a key the map lacks is a KeyError
Branch(next_value) ==
    IF next_value \notin DOMAIN conditional_map THEN "fault"
    ELSE IF conditional_map[next_value] = END THEN "done"
    ELSE "agent"

\* where the run goes after an agent node: along its edge
Follow(node) ==
    LET target == CHOOSE t \in {e[2] : e \in {d \in edges : d[1] = node}} : TRUE
    IN  IF target = "supervisor" THEN "supervisor" ELSE "agent"

----------------------------------------------------------------------------
(* event_types.py *)

\* class EventType(Enum): member name |-> value
EventType ==
    [TICKET_CREATE |-> "ticket create",
     TICKET_STATE_UPDATE |-> "ticket state update",
     TICKET_UPDATE |-> "ticket update",
     TICKET_DELETE |-> "ticket delete",
     TICKET_CLOSE |-> "ticket close",
     TICKET_RESOLUTION_ESTIMATION |-> "Estimate resolution time",
     OPPORTUNITY_CREATE |-> "opportunity create",
     OPPORTUNITY_STATE_UPDATE |-> "opportunity state update",
     OPPORTUNITY_RESOLVE |-> "opportunity resolve",
     OPPORTUNITY_UPDATE |-> "opportunity update",
     OPPORTUNITY_LOST |-> "opportunity_lost",
     OPPORTUNITY_DELETE |-> "opportunity delete",
     CUSTOMER_UPDATE |-> "customer_update"]

\* an Enum member is an object of its own: it equals no string, not even its value
Member(member_name) == "EventType." \o member_name

EventTypeValues == {EventType[n] : n \in DOMAIN EventType}

----------------------------------------------------------------------------
(* dispatcher/event_dispatcher.py *)

\* the methods class EventDispatcher defines
Methods ==
    {"dispatch", "handle_email_notification", "handle_ticket_create_agent",
     "handle_ticket_update_agent", "handle_ticket_state_update_agent",
     "handle_ticket_close_agent", "handle_ticket_delete_agent",
     "handle_opportunity_create_agent", "handle_opportunity_state_update_agent",
     "handle_opportunity_update_agent", "handle_opportunity_resolve_agent",
     "handle_opportunity_lost_agent", "handle_opportunity_delete_agent",
     "handle_default"}

\* the attribute each entry of self.routes names for its business handler
BusinessAttribute ==
    [TICKET_CREATE |-> "handle_ticket_create_agent",
     TICKET_STATE_UPDATE |-> "handle_ticket_state_update_agent",
     TICKET_UPDATE |-> "handle_ticket_update_agentm",
     TICKET_CLOSE |-> "handle_ticket_close_agent",
     TICKET_DELETE |-> "handle_ticket_delete_agentm",
     OPPORTUNITY_CREATE |-> "handle_opportunity_create_agent",
     OPPORTUNITY_STATE_UPDATE |-> "handle_opportunity_state_update_agent",
     OPPORTUNITY_UPDATE |-> "handle_opportunity_update_agent",
     OPPORTUNITY_RESOLVE |-> "handle_opportunity_resolve_agent",
     OPPORTUNITY_LOST |-> "handle_opportunity_lost_agent",
     OPPORTUNITY_DELETE |-> "handle_opportunity_delete_agentm"]

\* the dict literal assigned to self.routes: EventType member |-> handler list
RoutesDeclared ==
    [key \in {Member(n) : n \in DOMAIN BusinessAttribute} |->
        LET n == CHOOSE m \in DOMAIN BusinessAttribute : Member(m) = key
        IN  <<BusinessAttribute[n], "handle_email_notification">>]

\* EventDispatcher(graph): evaluating the dict literal reads every attribute
\* it names off self; one the class lacks raises AttributeError
EventDispatcher_init ==
    IF \A key \in DOMAIN RoutesDeclared :
           \A i \in DOMAIN RoutesDeclared[key] : RoutesDeclared[key][i] \in Methods
    THEN [raised |-> None, routes |-> RoutesDeclared]
    ELSE [raised |-> "AttributeError", routes |-> <<>>]

\* a slip: no default handler for an event type without an entry
routes_get_no_default(routes, event_type) ==
    IF event_type \in DOMAIN routes THEN routes[event_type] ELSE <<>>

\* self.routes.get(event_type, [self.handle_default])
routes_get(routes, event_type) ==
    IF event_type \in DOMAIN routes THEN routes[event_type] ELSE <<"handle_default">>

\* what a handler is: the notification handler, the default handler, or a
\* business handler, which starts a conversation on the graph
HandlerKind(handler) ==
    IF handler = "handle_email_notification" THEN "notification"
    ELSE IF handler = "handle_default" THEN "default"
    ELSE "business"

\* payload.get(key, default) on the decoded payload, for a key whose value is
\* a string: the text between the quotes that follow the key
payload_get(payload_json, key, default) ==
    LET opening == "\"" \o key \o "\": \""
        n == Len(payload_json)
        m == Len(opening)
        starts == {k \in 1..(n - m + 1) : SubSeq(payload_json, k, k + m - 1) = opening}
    IN  IF starts = {} THEN default
        ELSE LET from == (CHOOSE k \in starts : \A j \in starts : k <= j) + m
                 to == CHOOSE k \in from..n :
                           /\ Char(payload_json, k) = "\""
                           /\ \A j \in from..(k - 1) : Char(payload_json, j) # "\""
             IN  SubSeq(payload_json, from, to - 1)

\* the dict a business handler passes to self.graph.invoke, as a function of
\* its keys; self.communication_type is the class CommunicationType.  An
\* attribute name the class lacks stands for the method it misspells
graph_input(handler, event_type, payload_json) ==
    LET method == IF handler \in Methods THEN handler
                  ELSE SubSeq(handler, 1, Len(handler) - 1)
        default ==
            CASE method = "handle_ticket_create_agent" -> "New ticket created."
              [] method = "handle_ticket_update_agent" -> "Ticket updated."
              [] method = "handle_ticket_state_update_agent" -> "Ticket state updated."
              [] method = "handle_ticket_close_agent" -> "Ticket closed."
              [] method = "handle_ticket_delete_agent" -> "Ticket deleted."
              [] method = "handle_opportunity_create_agent" -> "opportunity deleted."
              [] method = "handle_opportunity_state_update_agent" ->
                     "opportunity state updated."
              [] method = "handle_opportunity_update_agent" -> "opportunity updated."
              [] method = "handle_opportunity_resolve_agent" -> "opportunity resolved."
              [] method = "handle_opportunity_lost_agent" -> "opportunity lost."
              [] method = "handle_opportunity_delete_agent" -> "opportunity deleted."
        message == payload_get(payload_json, "message", default)
        history == IF method = "handle_ticket_create_agent" THEN "messages" ELSE "message"
        mode == IF method = "handle_ticket_create_agent"
                THEN "communication_type" ELSE "communication"
    IN  [key \in {history, "next", mode, "event_type"} |->
            CASE key = history -> <<HumanMessage(message, None)>>
              [] key = "next" -> "technical_support"
              [] key = mode -> "CommunicationType"
              [] key = "event_type" -> event_type]

\* a slip: the loop goes on to the next handler when one raises
Propagates_not(handler) == FALSE

\* dispatch has no try around handler(event_type, payload)
Propagates(handler) == TRUE

\* a slip: handlers are started and not waited for
Waits_not(handler) == FALSE

\* handler(event_type, payload) is a call: the loop goes on when it has returned
Waits(handler) == TRUE

----------------------------------------------------------------------------
(* worker_rq.py *)

\* what json.loads makes of the payload text, told by its outer characters
JsonKind(payload_json) ==
    LET n == Len(payload_json)
        first == IF n = 0 THEN "" ELSE SubSeq(payload_json, 1, 1)
        last == IF n = 0 THEN "" ELSE SubSeq(payload_json, n, n)
    IN  IF first = "{" /\ last = "}" THEN "object"
        ELSE IF first = "[" /\ last = "]" THEN "array"
        ELSE "invalid"

\* a slip: the payload text is passed on without being decoded
JSONDecodeError_never(payload_json) == FALSE

\* except json.JSONDecodeError
JSONDecodeError(payload_json) == JsonKind(payload_json) = "invalid"

\* the record of one event: fields of `ev`
Event(position, event_type, payload_json) ==
    [pc |-> position, event_type |-> event_type, payload_json |-> payload_json,
     graph |-> None, dispatcher |-> None, handlers |-> <<>>, i |-> 0, active |-> {},
     log |-> <<>>, effects |-> <<>>, result |-> None, raised |-> None,
     graph_input |-> <<>>]

NoEvent == Event("idle", None, None)

----------------------------------------------------------------------------
(* Bounded inputs *)

\* handler replies other than the sentinel allowed in one conversation
MaxOther == 1

\* the same, in the specification of the classifier's outputs
MaxOtherClassifier == 2

\* the same, in the specification of long conversations
MaxOtherLong == 3

UserInputs == {"hello", NOT_ME}

CommunicationTypes == {"console", "email"}

Decline == AgentResult("result", NOT_ME)

\* Spec: the classifier delegates to any member, answers, or fails to decide;
\* each handler declines or gives one reply of its own
ClassifierRoutes ==
    {RawOutput("arguments", "object", n, "") : n \in MemberSet}
    \cup {RawOutput(None, Absent, Absent, Absent),
          RawOutput("arguments", "object", FINISH, NOT_ME)}

Replies ==
    [name \in MemberSet |->
        {Decline} \cup
        CASE name = "customer_support" -> {AgentResult("result", "not_me")}
          [] name = "sales_manager" ->
                 {AgentResult("result", "NOT_ME, the request is about a technical issue.")}
          [] name = "technical_support" ->
                 {AgentResult("result", "This needs diagnosis. Next: Diagnostic_Agent")}
          [] OTHER -> {AgentResult("result", None)}]

\* SpecClassifier: every shape of classifier output
Answers == {"Hi, how can I help?", " Hi \n"}

Targets == MemberSet \cup {FINISH, "billing", "", None, Absent}

ClassifierOutputs ==
    {RawOutput(fc, Absent, Absent, Absent) : fc \in {None, "empty", "no_arguments"}}
    \cup {RawOutput("arguments", j, Absent, Absent) : j \in {"invalid", "array"}}
    \cup {RawOutput("arguments", "object", n, "") : n \in Targets}
    \cup {RawOutput("arguments", "object", n, Absent) :
              n \in {FINISH, "diagnostic_agent", Absent}}
    \cup {RawOutput("arguments", "object", n, a) :
              n \in {FINISH, "customer_support", "", Absent, "billing"}, a \in Answers}
    \cup {RawOutput("arguments", "object", n, a) :
              n \in {FINISH, "sales_manager"}, a \in {None, "  "}}

RepliesClassifier ==
    [name \in MemberSet |->
        {Decline} \cup
        (IF name = "customer_support"
         THEN {AgentResult("result", "Your ticket is open.")}
         ELSE {})]

\* SpecLong: long conversations
RepliesLong == RepliesClassifier

\* SpecGraph: the graph build_graph wires; the classifier may also name the
\* key the technical node is registered under, a handler may raise
MaxOtherGraph == 1

MaxStepsGraph == 4

ClassifierRoutesGraph ==
    ClassifierRoutes
    \cup {RawOutput("arguments", "object", n, "") : n \in {FINISH, "tachnical_support"}}

RepliesGraph ==
    [node \in AgentNodes |->
        {Decline, AgentResult("raise", None)} \cup
        CASE node = "customer_support" -> {AgentResult("result", None)}
          [] node = "sales_manager" ->
                 {AgentResult("result", "This needs diagnosis. next: diagnostic_agent")}
          [] OTHER -> {AgentResult("result", "Restart the router.")}]

\* SpecEvents: process_event on every event type string and some payload texts
PayloadTexts ==
    {"{\"customer_email\": \"a@b.c\", \"message\": \"the printer is down\"}",
     "{\"message\": \"the printer is down\"}",
     "{\"customer_email\": \"a@b.c\"}",
     "[1, 2]",
     "{\"message\": ",
     ""}

EventInputs == EventTypeValues \cup {"unknown event"}

\* SpecDispatch: dispatch on every EventType member, a type string and an
\* unknown type, with payloads that are JSON objects
ObjectPayloads == {p \in PayloadTexts : JsonKind(p) = "object"}

DispatchInputs == {Member(n) : n \in DOMAIN EventType} \cup {"ticket create", "unknown event"}

\* SpecHandoff: each handler declines or hands the conversation to a peer
MaxOtherHandoff == 1

RepliesHandoff ==
    [name \in MemberSet |->
        {Decline} \cup
        {AgentResult("result", "Please take over. next: " \o peer) :
             peer \in MemberSet \ {name}}]

----------------------------------------------------------------------------
(* The conversation *)

\* the parts a specification leaves idle
NoRuns == <<>>

NoMail == [pc |-> "idle"]

NoBot == [pc |-> "idle"]

NoShop == [pc |-> "idle"]

Elsewhere ==
    /\ runs = NoRuns
    /\ mail = NoMail
    /\ bot = NoBot
    /\ shop = NoShop

NoCall == Call("none", <<>>, <<>>, FALSE, 0, FALSE, <<>>, NoOutput, None, NoReturn).call

\* main.py run_direct_input / process_incoming_email: one user message
Init ==
    /\ \E user_input \in UserInputs, communication_type \in CommunicationTypes :
           state = [messages |-> <<HumanMessage(user_input, None)>>,
                    next |-> "supervisor",
                    communication_type |-> communication_type]
    /\ pc = "supervisor"
    /\ call = NoCall
    /\ steps = 0
    /\ others = 0
    /\ declined = {}
    /\ ev = NoEvent
    /\ Elsewhere

\* one Router step: supervisor_node on the current state; the returned state
\* is the next state of the conversation
Route(raw) ==
    LET r == supervisor_node(state, raw)
    IN  /\ call' = r.call
        /\ steps' = steps + 1
        /\ IF r.call.raised # None
           THEN /\ state' = [state EXCEPT !.messages = r.call.arg_messages]
                /\ pc' = "raised"
           ELSE /\ state' = r.ret
                /\ pc' = IF r.ret.next = FINISH THEN "done"
                         ELSE IF r.ret.next \in MemberSet THEN "agent"
                         ELSE "fault"
        /\ UNCHANGED <<others, declined, ev, apart>>

\* whether supervisor_node reaches the classifier on the current state
ReachesClassifier == supervisor_node(state, NoOutput).call.classifier_invoked

RouterStep(Outputs) ==
    /\ pc = "supervisor"
    /\ IF ReachesClassifier THEN \E raw \in Outputs : Route(raw) ELSE Route(NoOutput)

\* one handler step: agent_node under the name the Router chose; the graph's
\* reducer (operator.add) appends the returned messages to the history
HandlerStep(replies, max_other) ==
    /\ pc = "agent"
    /\ \E result \in replies[state.next] :
           /\ result = Decline \/ others < max_other
           /\ state' = [state EXCEPT
                            !.messages = @ \o agent_node(result, state.next).messages]
           /\ others' = IF result = Decline THEN others ELSE others + 1
           /\ declined' = IF result = Decline THEN declined \cup {state.next} ELSE declined
    /\ pc' = "supervisor"
    /\ UNCHANGED <<call, steps, ev, apart>>

Supervisor == RouterStep(ClassifierRoutes)

Handler == HandlerStep(Replies, MaxOther)

Next == Supervisor \/ Handler

Spec == Init /\ [][Next]_vars

SupervisorClassifier == RouterStep(ClassifierOutputs)

HandlerClassifier == HandlerStep(RepliesClassifier, MaxOtherClassifier)

NextClassifier == SupervisorClassifier \/ HandlerClassifier

SpecClassifier == Init /\ [][NextClassifier]_vars

SupervisorLong == RouterStep(ClassifierRoutes)

HandlerLong == HandlerStep(RepliesLong, MaxOtherLong)

NextLong == SupervisorLong \/ HandlerLong

SpecLong == Init /\ [][NextLong]_vars

\* the supervisor node of the graph, taken to run supervisor_node, and the
\* conditional edge out of it
GraphRouterStep(Outputs) ==
    /\ pc = entry_point
    /\ steps < MaxStepsGraph
    /\ \E raw \in (IF ReachesClassifier THEN Outputs ELSE {NoOutput}) :
           LET r == supervisor_node(state, raw)
           IN  /\ call' = r.call
               /\ IF r.call.raised # None
                  THEN /\ state' = [state EXCEPT !.messages = r.call.arg_messages]
                       /\ pc' = "raised"
                  ELSE /\ state' = r.ret
                       /\ pc' = Branch(r.ret.next)
    /\ steps' = steps + 1
    /\ UNCHANGED <<others, declined, ev, apart>>

\* an agent node of the graph: agent_node under the name bound to the node;
\* an exception of agent.invoke leaves agent_node and the run
GraphHandlerStep(replies, max_other) ==
    /\ pc = "agent"
    /\ LET node == conditional_map[state.next]
       IN  \E result \in replies[node] :
               /\ result = Decline \/ others < max_other
               /\ IF result.kind = "raise"
                  THEN /\ pc' = "agent_raised"
                       /\ UNCHANGED <<state, others, declined>>
                  ELSE /\ state' = [state EXCEPT !.messages =
                                       operator_add(@, agent_node(result, NodeName[node]).messages)]
                       /\ pc' = Follow(node)
                       /\ others' = IF result = Decline THEN others ELSE others + 1
                       /\ declined' = IF result = Decline
                                      THEN declined \cup {NodeName[node]} ELSE declined
    /\ UNCHANGED <<call, steps, ev, apart>>

SupervisorGraph == GraphRouterStep(ClassifierRoutesGraph)

HandlerGraph == GraphHandlerStep(RepliesGraph, MaxOtherGraph)

NextGraph == SupervisorGraph \/ HandlerGraph

SpecGraph == Init /\ [][NextGraph]_vars

\* JsonOutputToolsParser on the classifier's message: the model is bound with
\* functions=, so the message carries function_call and no tool_calls, and the
\* parser gives the empty list whatever the function call holds
JsonOutputToolsParser(raw) == <<>>

\* supervisor_chain.invoke(state): the prompt over the whole of
\* state["messages"], the classifier, the parser
supervisor_chain(st, raw) ==
    [call |-> Call("chain", st.messages, st.messages, FALSE, 0, TRUE, st.messages, raw,
                   None, NoReturn).call,
     output |-> JsonOutputToolsParser(raw)]

\* the supervisor node as build_graph registers it: supervisor_chain.  Its
\* output is a list, not a state update: the graph rejects it, or applies
\* nothing and branches on the "next" the run was started with
ChainStep ==
    /\ pc = entry_point
    /\ \E raw \in ClassifierOutputs, update \in {"rejected", "ignored"} :
           LET r == supervisor_chain(state, raw)
           IN  /\ call' = r.call
               /\ pc' = IF update = "rejected" THEN "raised" ELSE Branch(state.next)
    /\ steps' = steps + 1
    /\ UNCHANGED <<state, others, declined, ev, apart>>

NextBuilt == ChainStep

SpecBuilt == Init /\ [][NextBuilt]_vars

SupervisorHandoff == RouterStep(ClassifierRoutes)

HandlerHandoff == HandlerStep(RepliesHandoff, MaxOtherHandoff)

NextHandoff == SupervisorHandoff \/ HandlerHandoff

SpecHandoff == Init /\ [][NextHandoff]_vars

----------------------------------------------------------------------------
(* The event path *)

conversation == <<state, pc, call, steps, others, declined>>

NoConversation ==
    /\ state = NoReturn
    /\ pc = "idle"
    /\ call = NoCall
    /\ steps = 0
    /\ others = 0
    /\ declined = {}

\* process_event(event_type, payload_json) is called by the queue worker
InitEvents ==
    /\ NoConversation
    /\ Elsewhere
    /\ \E event_type \in EventInputs, payload_json \in PayloadTexts :
           ev = Event("process_event", event_type, payload_json)

\* try: payload = json.loads(payload_json) except json.JSONDecodeError: return
Decode ==
    /\ ev.pc = "process_event"
    /\ ev' = IF JSONDecodeError(ev.payload_json)
             THEN [ev EXCEPT !.pc = "returned", !.result = "error: Invalid JSON payload"]
             ELSE [ev EXCEPT !.pc = "build_graph"]
    /\ UNCHANGED <<conversation, apart>>

\* graph = build_graph()
BuildGraph ==
    /\ ev.pc = "build_graph"
    /\ ev' = [ev EXCEPT !.pc = "construct", !.graph = "graph"]
    /\ UNCHANGED <<conversation, apart>>

\* dispatcher = EventDispatcher(graph)
Construct ==
    /\ ev.pc = "construct"
    /\ ev' = IF EventDispatcher_init.raised # None
             THEN [ev EXCEPT !.pc = "raised", !.raised = EventDispatcher_init.raised]
             ELSE [ev EXCEPT !.pc = "dispatch", !.dispatcher = "EventDispatcher"]
    /\ UNCHANGED <<conversation, apart>>

NextEvents == Decode \/ BuildGraph \/ Construct

SpecEvents == InitEvents /\ [][NextEvents]_vars

\* send_notification sends when the payload names a recipient
HasRecipient(payload_json) ==
    contains("\"customer_email\"", payload_json) \/ contains("\"email\"", payload_json)

\* what a handler changes: a business handler runs a conversation on the
\* graph, the notification handler sends an email, the default handler prints
Effect(handler, payload_json) ==
    CASE HandlerKind(handler) = "business" -> <<"conversation">>
      [] HandlerKind(handler) = "notification" ->
             IF HasRecipient(payload_json) THEN <<"notification">> ELSE <<>>
      [] OTHER -> <<>>

\* dispatcher.dispatch(event_type, payload) on a dispatcher that holds the
\* routing table the class declares
InitDispatch ==
    /\ NoConversation
    /\ Elsewhere
    /\ \E event_type \in DispatchInputs, payload_json \in ObjectPayloads :
           ev = [Event("dispatch", event_type, payload_json) EXCEPT
                     !.graph = "graph", !.dispatcher = "EventDispatcher"]

\* handlers = self.routes.get(event_type, [self.handle_default])
Lookup ==
    /\ ev.pc = "dispatch"
    /\ ev' = [ev EXCEPT !.handlers = routes_get(RoutesDeclared, ev.event_type),
                        !.i = 1,
                        !.pc = "loop"]
    /\ UNCHANGED <<conversation, apart>>

\* for handler in handlers: handler(event_type, payload)
CallHandler ==
    /\ ev.pc = "loop"
    /\ ev.i <= Len(ev.handlers)
    /\ LET handler == ev.handlers[ev.i]
       IN  ev' = [ev EXCEPT
                     !.log = Append(@, [event |-> "call", handler |-> handler,
                                        seen |-> ev.effects]),
                     !.active = @ \cup {handler},
                     !.graph_input = IF HandlerKind(handler) = "business"
                                     THEN graph_input(handler, ev.event_type,
                                                      ev.payload_json)
                                     ELSE @,
                     !.pc = IF Waits(handler) THEN "in_handler" ELSE "loop",
                     !.i = IF Waits(handler) THEN @ ELSE @ + 1]
    /\ UNCHANGED <<conversation, apart>>

\* the running handler returns, its changes made
HandlerReturns ==
    /\ \E handler \in ev.active :
           LET effects == ev.effects \o Effect(handler, ev.payload_json)
           IN  ev' = [ev EXCEPT
                         !.effects = effects,
                         !.log = Append(@, [event |-> "return", handler |-> handler,
                                            seen |-> effects]),
                         !.active = @ \ {handler},
                         !.pc = IF @ = "in_handler" THEN "loop" ELSE @,
                         !.i = IF ev.pc = "in_handler" THEN @ + 1 ELSE @]
    /\ UNCHANGED <<conversation, apart>>

\* the running handler raises: graph.invoke or the email service fails, and
\* dispatch has no try
HandlerRaises ==
    /\ ev.pc = "in_handler"
    /\ \E handler \in ev.active :
           /\ HandlerKind(handler) # "default"
           /\ ev' = [ev EXCEPT
                         !.log = Append(@, [event |-> "raise", handler |-> handler,
                                            seen |-> ev.effects]),
                         !.active = @ \ {handler},
                         !.pc = IF Propagates(handler) THEN "raised" ELSE "loop",
                         !.i = IF Propagates(handler) THEN @ ELSE @ + 1,
                         !.raised = IF Propagates(handler) THEN "Exception" ELSE @]
    /\ UNCHANGED <<conversation, apart>>

\* the loop is over: dispatch returns None
DispatchReturns ==
    /\ ev.pc = "loop"
    /\ ev.i > Len(ev.handlers)
    /\ ev' = [ev EXCEPT !.pc = "returned"]
    /\ UNCHANGED <<conversation, apart>>

NextDispatch == Lookup \/ CallHandler \/ HandlerReturns \/ HandlerRaises \/ DispatchReturns

SpecDispatch == InitDispatch /\ [][NextDispatch]_vars

----------------------------------------------------------------------------
(* Two conversations at once: main.py's console loop and its listener thread *)

MaxStepsConcurrent == 2

\* a slip: the state kept in one module-level dict that every call works on
Cell_shared(run) == 1

\* the dict a graph.invoke call works on: the input_data its caller built for it
Cell(run) == run

\* run 1 is run_direct_input, run 2 is process_incoming_email
InputData ==
    <<[messages |-> <<HumanMessage("console: where is my ticket?", None)>>,
       next |-> "supervisor",
       communication_type |-> "console"],
      [messages |-> <<HumanMessage("email: my invoice is wrong", None)>>,
       next |-> "supervisor",
       communication_type |-> "email"]>>

\* what the agents reply in each run
RepliesConcurrent ==
    <<{Decline, AgentResult("result", "console: your ticket is open")},
      {Decline, AgentResult("result", "email: the invoice is corrected")}>>

InitConcurrent ==
    /\ NoConversation
    /\ ev = NoEvent
    /\ runs = [run \in {1, 2} |-> [state |-> InputData[run], pc |-> "supervisor", steps |-> 0]]
    /\ mail = NoMail
    /\ bot = NoBot
    /\ shop = NoShop

\* the supervisor step of one run
RunRouter(run) ==
    /\ runs[run].pc = "supervisor"
    /\ runs[run].steps < MaxStepsConcurrent
    /\ LET st == runs[Cell(run)].state
       IN  \E raw \in (IF supervisor_node(st, NoOutput).call.classifier_invoked
                       THEN ClassifierRoutes ELSE {NoOutput}) :
               LET r == supervisor_node(st, raw)
                   after == [runs EXCEPT ![Cell(run)].state = r.ret]
               IN  runs' = [after EXCEPT
                               ![run].pc = IF r.ret.next = FINISH THEN "done"
                                           ELSE IF r.ret.next \in MemberSet THEN "agent"
                                           ELSE "fault",
                               ![run].steps = @ + 1]
    /\ UNCHANGED <<conversation, ev, mail, bot, shop>>

\* the handler step of one run
RunHandler(run) ==
    /\ runs[run].pc = "agent"
    /\ LET st == runs[Cell(run)].state
       IN  \E result \in RepliesConcurrent[run] :
               LET after == [runs EXCEPT ![Cell(run)].state.messages =
                                 operator_add(@, agent_node(result, st.next).messages)]
               IN  runs' = [after EXCEPT ![run].pc = "supervisor"]
    /\ UNCHANGED <<conversation, ev, mail, bot, shop>>

NextConcurrent == \E run \in {1, 2} : RunRouter(run) \/ RunHandler(run)

SpecConcurrent == InitConcurrent /\ [][NextConcurrent]_vars

----------------------------------------------------------------------------
(* main.py process_incoming_email, communication/email/email_service.py *)

ErrorMessage ==
    "I'm sorry, an error occurred while processing your request. Please try again later."

\* what the listener hands over (parse_email), how graph.invoke ends, and
\* whether the SMTP server takes a message
Senders == {"ann@example.com", "bob@example.com"}

Subjects == {"Ticket 123", ""}

Bodies == {"My printer is down.", "Where is my invoice?", ""}

GraphOutcomes ==
    {[kind |-> "raise", exception |-> e, mode |-> None, text |-> None] :
         e \in {"KeyError", "ValueError", "RateLimitError"}}
    \cup {[kind |-> "return", exception |-> None, mode |-> m, text |-> "Your ticket is open."] :
              m \in {"email", DIRECT_API}}

NoOutcome == [kind |-> "none", exception |-> None, mode |-> None, text |-> None]

\* a slip: except ValueError in place of except Exception
Caught_value_errors(exception) == exception = "ValueError"

\* except Exception as e
Caught(exception) == TRUE

\* EmailService.send_email: every failure is logged and (False, ...) returned
send_email(recipient_email, subject, body, accepted) ==
    [to |-> recipient_email, subject |-> subject, body |-> body, accepted |-> accepted]

InitMail ==
    /\ NoConversation
    /\ ev = NoEvent
    /\ runs = NoRuns
    /\ bot = NoBot
    /\ shop = NoShop
    /\ \E sender \in Senders, subject \in Subjects, body \in Bodies :
           mail = [pc |-> "invoke", sender |-> sender, subject |-> subject, body |-> body,
                   graph |-> NoOutcome, attempts |-> <<>>, raised |-> None]

\* result = graph.invoke(input_data, ...) inside the try
MailInvoke ==
    /\ mail.pc = "invoke"
    /\ \E outcome \in GraphOutcomes :
           mail' = [mail EXCEPT
                       !.graph = outcome,
                       !.pc = IF outcome.kind = "return" THEN "respond"
                              ELSE IF Caught(outcome.exception) THEN "except"
                              ELSE "raised",
                       !.raised = IF outcome.kind = "raise" /\ ~Caught(outcome.exception)
                                  THEN outcome.exception ELSE None]
    /\ UNCHANGED <<conversation, ev, runs, bot, shop>>

\* handle_final_response(result): an email reply when the final state is
\* still tagged "email", the console display otherwise
MailRespond ==
    /\ mail.pc = "respond"
    /\ \E accepted \in BOOLEAN :
           mail' = [mail EXCEPT
                       !.attempts =
                           IF mail.graph.mode = "email"
                           THEN Append(@, send_email(mail.sender, "Re: " \o mail.subject,
                                                     mail.graph.text, accepted))
                           ELSE @,
                       !.pc = "returned"]
    /\ UNCHANGED <<conversation, ev, runs, bot, shop>>

\* the except branch: the apology goes to the sender
MailApologise ==
    /\ mail.pc = "except"
    /\ \E accepted \in BOOLEAN :
           mail' = [mail EXCEPT
                       !.attempts = Append(@, send_email(mail.sender, "Re: " \o mail.subject,
                                                         ErrorMessage, accepted)),
                       !.pc = "returned"]
    /\ UNCHANGED <<conversation, ev, runs, bot, shop>>

NextMail == MailInvoke \/ MailRespond \/ MailApologise

SpecMail == InitMail /\ [][NextMail]_vars

----------------------------------------------------------------------------
(* backend/llm_orchestrator.py process_message *)

\* a slip: the command looked for anywhere in the reply
startswith_anywhere(s, prefix) == contains(prefix, s)

\* str.startswith
startswith(s, prefix) == Len(s) >= Len(prefix) /\ SubSeq(s, 1, Len(prefix)) = prefix

\* s.replace(old, ""): every occurrence of old removed, left to right
RECURSIVE remove_all(_, _)
remove_all(s, old) ==
    IF Len(s) < Len(old) THEN s
    ELSE IF SubSeq(s, 1, Len(old)) = old THEN remove_all(SubSeq(s, Len(old) + 1, Len(s)), old)
    ELSE Char(s, 1) \o remove_all(SubSeq(s, 2, Len(s)), old)

\* s.split(":", 1): the parts around the first colon
split_once(s) ==
    LET i == CHOOSE k \in 1..Len(s) :
                 Char(s, k) = ":" /\ \A j \in 1..(k - 1) : Char(s, j) # ":"
    IN  <<SubSeq(s, 1, i - 1), SubSeq(s, i + 1, Len(s))>>

DigitValue == [c \in {Char("0123456789", k) : k \in 1..10} |->
                  (CHOOSE k \in 1..10 : Char("0123456789", k) = c) - 1]

\* str.isdigit
isdigit(s) == Len(s) > 0 /\ \A k \in 1..Len(s) : Char(s, k) \in DOMAIN DigitValue

\* int(s) on a string of digits
RECURSIVE int(_)
int(s) ==
    IF Len(s) = 0 THEN 0
    ELSE 10 * int(SubSeq(s, 1, Len(s) - 1)) + DigitValue[Char(s, Len(s))]

NoArguments ==
    [query |-> Absent, product_name |-> Absent, quantity |-> -1, product_id |-> -1,
     delivery_address |-> Absent]

function_call(function, arguments) ==
    [type |-> "function_call", function |-> function, arguments |-> arguments,
     response |-> Absent]

text_response(response) ==
    [type |-> "text_response", function |-> None, arguments |-> NoArguments,
     response |-> response]

NotSure ==
    "I'm not sure how to help with that. Try asking to search for products, view your cart, or place an order."

\* the parsing of the reply's text (lines 81-179)
parse_reply(content) ==
    LET response_text == strip(content)
    IN  IF startswith(response_text, "SEARCH:")
        THEN function_call("search_products",
                 [NoArguments EXCEPT !.query = strip(remove_all(response_text, "SEARCH:"))])
        ELSE IF startswith(response_text, "ADD:")
        THEN LET body == strip(remove_all(response_text, "ADD:"))
                 parts == IF contains(":", body) THEN split_once(body) ELSE <<body, "">>
                 amount == strip(parts[2])
             IN  function_call("add_to_cart_by_name",
                     [NoArguments EXCEPT
                         !.product_name = IF contains(":", body) THEN strip(parts[1]) ELSE body,
                         !.quantity = IF contains(":", body) /\ isdigit(amount)
                                      THEN int(amount) ELSE 1])
        ELSE IF response_text = "CART" THEN function_call("view_cart", NoArguments)
        ELSE IF startswith(response_text, "REMOVE:")
        THEN LET product_id_str == strip(remove_all(response_text, "REMOVE:"))
             IN  IF ~isdigit(product_id_str) \/ int(product_id_str) = 0
                 THEN text_response(
                          "Please specify which item to remove by saying 'remove item [number]'")
                 ELSE function_call("remove_from_cart",
                          [NoArguments EXCEPT !.product_id = int(product_id_str)])
        ELSE IF startswith(response_text, "ORDER:")
        THEN LET address == strip(remove_all(response_text, "ORDER:"))
             IN  IF address = "" THEN text_response("Please provide your delivery address to place the order.")
                 ELSE function_call("confirm_order",
                          [NoArguments EXCEPT !.delivery_address = address])
        ELSE IF response_text = "STATUS" THEN function_call("check_order_status", NoArguments)
        ELSE IF startswith(response_text, "CHAT:")
        THEN text_response(strip(remove_all(response_text, "CHAT:")))
        ELSE text_response(NotSure)

\* what the chat completion call gives: it raises, or a message whose content
\* is None or a text
LLMReply(kind, content) == [kind |-> kind, content |-> content]

\* process_message: everything from the API call on is inside try/except
\* Exception, which answers with the rephrase request
process_message(reply) ==
    IF reply.kind = "raise" \/ reply.content = None
    THEN text_response("I'm having trouble understanding. Can you try rephrasing your request?")
    ELSE parse_reply(reply.content)

----------------------------------------------------------------------------
(* communication/main.py process_text_internal *)

CustomerMessages == {"blah blah nonsense", "find headphones"}

LLMReplies ==
    {LLMReply("content", c) :
         c \in {"SEARCH:phone", " SEARCH: all \n", "ADD:iphone:2", "ADD:iphone",
                "ADD:iphone:two", "CART", "cart", "CART please", "REMOVE:3",
                "REMOVE:item", "REMOVE:0", "ORDER:12 Main St", "ORDER:", "STATUS",
                "CHAT:Hi! Welcome!", "I am not sure.", "",
                "I could SEARCH:phone for you", None}}
    \cup {LLMReply("raise", None)}

NoResult ==
    [type |-> "none", function |-> None, arguments |-> NoArguments, response |-> Absent]

Response(success, response, function_called, message_type) ==
    [success |-> success, response |-> response, function_called |-> function_called,
     message_type |-> message_type]

InitBot ==
    /\ NoConversation
    /\ ev = NoEvent
    /\ runs = NoRuns
    /\ mail = NoMail
    /\ shop = NoShop
    /\ \E message \in CustomerMessages :
           bot = [pc |-> "customer", message |-> message, reply |-> LLMReply("none", None),
                  llm_result |-> NoResult, calls |-> <<>>, response_text |-> "",
                  result |-> Response(FALSE, Absent, Absent, Absent)]

\* get_or_create_customer and get_conversation_history: a database failure
\* lands in the outer except
BotCustomer ==
    /\ bot.pc = "customer"
    /\ \E found \in BOOLEAN :
           bot' = IF found THEN [bot EXCEPT !.pc = "classify"]
                  ELSE [bot EXCEPT !.pc = "returned",
                                   !.result = Response(FALSE, "I'm having trouble right now. Please try again!",
                                                       Absent, Absent)]
    /\ UNCHANGED <<conversation, ev, runs, mail, shop>>

\* llm_result = llm_orchestrator.process_message(...)
BotClassify ==
    /\ bot.pc = "classify"
    /\ \E reply \in LLMReplies :
           LET llm_result == process_message(reply)
           IN  bot' = [bot EXCEPT
                          !.reply = reply,
                          !.llm_result = llm_result,
                          !.response_text = IF llm_result.type = "function_call"
                                            THEN "" ELSE llm_result.response,
                          !.pc = IF llm_result.type = "function_call"
                                 THEN "execute" ELSE "save"]
    /\ UNCHANGED <<conversation, ev, runs, mail, shop>>

\* the e-commerce function named by the result is called; its failure, or that
\* of generate_function_response, gives the apology text
BotExecute ==
    /\ bot.pc = "execute"
    /\ \E done \in BOOLEAN :
           bot' = [bot EXCEPT
                      !.calls = Append(@, bot.llm_result.function),
                      !.response_text = IF done THEN "generated response"
                                        ELSE "Sorry, I had trouble processing that request. Please try again.",
                      !.pc = "save"]
    /\ UNCHANGED <<conversation, ev, runs, mail, shop>>

\* save_conversation (its failure is only logged) and the return
BotSave ==
    /\ bot.pc = "save"
    /\ bot' = [bot EXCEPT
                  !.pc = "returned",
                  !.result = Response(TRUE, bot.response_text, bot.llm_result.function,
                                      bot.llm_result.type)]
    /\ UNCHANGED <<conversation, ev, runs, mail, shop>>

NextBot == BotCustomer \/ BotClassify \/ BotExecute \/ BotSave

SpecBot == InitBot /\ [][NextBot]_vars

----------------------------------------------------------------------------
(* backend/fixed_database.py confirm_order *)
(* Two customers, one product.  Every statement runs on a connection of    *)
(* its own with autocommit on, so each is a step of its own and the steps  *)
(* of two calls interleave.  The products table is created outside the     *)
(* repository: stock_quantity either takes a negative value or the UPDATE  *)
(* that would make it negative fails, according to the column's type.      *)

MaxStock == 2

MaxQuantity == 2

Customers == {1, 2}

InitShop ==
    /\ NoConversation
    /\ ev = NoEvent
    /\ runs = NoRuns
    /\ mail = NoMail
    /\ bot = NoBot
    /\ \E stock \in 1..MaxStock, unsigned \in BOOLEAN,
          cart \in [Customers -> 0..MaxQuantity] :
           shop = [pc |-> "serving", initial_stock |-> stock, unsigned |-> unsigned,
                   stock_quantity |-> stock, cart |-> cart,
                   orders |-> [c \in Customers |-> 0],
                   order_items |-> [c \in Customers |-> 0],
                   at |-> [c \in Customers |-> "select"],
                   quantity |-> [c \in Customers |-> 0]]

\* the SELECT of the cart joined with the stock, and the checks on its rows
SelectCart(c) ==
    /\ shop.pc = "serving"
    /\ shop.at[c] = "select"
    /\ shop' = [shop EXCEPT
                   !.quantity[c] = shop.cart[c],
                   !.at[c] = IF shop.cart[c] = 0 THEN "failed"
                             ELSE IF shop.stock_quantity < shop.cart[c] THEN "failed"
                             ELSE "insert_order"]
    /\ UNCHANGED <<conversation, ev, runs, mail, bot>>

\* INSERT INTO orders
InsertOrder(c) ==
    /\ shop.at[c] = "insert_order"
    /\ shop' = [shop EXCEPT !.orders[c] = @ + 1, !.at[c] = "insert_item"]
    /\ UNCHANGED <<conversation, ev, runs, mail, bot>>

\* INSERT INTO order_items, with the quantity the SELECT read
InsertItem(c) ==
    /\ shop.at[c] = "insert_item"
    /\ shop' = [shop EXCEPT !.order_items[c] = @ + shop.quantity[c],
                            !.at[c] = "update_stock"]
    /\ UNCHANGED <<conversation, ev, runs, mail, bot>>

\* UPDATE products SET stock_quantity = stock_quantity - quantity; a failure
\* of the statement lands in except Exception, which returns success False
UpdateStock(c) ==
    /\ shop.at[c] = "update_stock"
    /\ LET left == shop.stock_quantity - shop.quantity[c]
       IN  shop' = IF shop.unsigned /\ left < 0
                   THEN [shop EXCEPT !.at[c] = "failed"]
                   ELSE [shop EXCEPT !.stock_quantity = left, !.at[c] = "clear_cart"]
    /\ UNCHANGED <<conversation, ev, runs, mail, bot>>

\* DELETE FROM cart, and the return of success True
ClearCart(c) ==
    /\ shop.at[c] = "clear_cart"
    /\ shop' = [shop EXCEPT !.cart[c] = 0, !.at[c] = "succeeded"]
    /\ UNCHANGED <<conversation, ev, runs, mail, bot>>

NextShop ==
    \E c \in Customers :
        SelectCart(c) \/ InsertOrder(c) \/ InsertItem(c) \/ UpdateStock(c) \/ ClearCart(c)

SpecShop == InitShop /\ [][NextShop]_vars

----------------------------------------------------------------------------
(* Vocabulary of the properties *)

\* the last supervisor_node call has returned and `state` is the state it returned
Returned == pc \in {"agent", "done", "fault"}

\* the last supervisor_node call raised instead of returning
Raised == pc = "raised"

\* the decline tally as the specification words it: the messages whose sender
\* is a registered handler and whose content is exactly the sentinel
SentinelMessages(messages) ==
    {i \in DOMAIN messages :
        /\ \E k \in DOMAIN members : messages[i].name = members[k]
        /\ messages[i].content = "NOT_ME"}

\* the handlers that authored a sentinel message of the history
Decliners(messages) == {messages[i].name : i \in SentinelMessages(messages)}

SupervisorSays(text) == [content |-> text, name |-> "supervisor"]

IsPrefix(p, q) == Len(p) <= Len(q) /\ \A i \in DOMAIN p : p[i] = q[i]

\* s without its leading and trailing whitespace: the substring of s that
\* neither starts nor ends with whitespace and leaves only whitespace around it
Blank(s) == \A i \in 1..Len(s) : SubSeq(s, i, i) \in {" ", "\t", "\n"}

Trimmed(s) ==
    IF Blank(s) THEN ""
    ELSE LET i == CHOOSE a \in 1..Len(s) :
                      ~Blank(SubSeq(s, a, a)) /\ Blank(SubSeq(s, 1, a - 1))
             j == CHOOSE b \in 1..Len(s) :
                      ~Blank(SubSeq(s, b, b)) /\ Blank(SubSeq(s, b + 1, Len(s)))
         IN  SubSeq(s, i, j)

----------------------------------------------------------------------------
(* C1: a Router step on a history whose decline tally (sentinel messages   *)
(* of registered handlers) has reached the number of registered handlers   *)
(* returns FINISH, appends exactly the scope apology as a supervisor       *)
(* message, and does not invoke the classifier.                            *)
C1_LoopCheckFinishes ==
    (pc # "supervisor" /\ call.path # "none"
        /\ Cardinality(SentinelMessages(call.in_messages)) >= Len(members))
    => /\ pc = "done"
       /\ state.next = FINISH
       /\ state.messages = call.in_messages \o <<SupervisorSays(ScopeApology)>>
       /\ ~call.classifier_invoked

C1_Witness ==
    /\ pc = "done"
    /\ call.path = "loop"
    /\ Cardinality(SentinelMessages(call.in_messages)) = Len(members)
    /\ Len(state.messages) = Len(call.in_messages) + 1

(* C2: in a conversation started from one user message in which every      *)
(* handler turn appended exactly the sentinel, the Router has returned     *)
(* FINISH by its (number of handlers + 1)-th step: the step count never    *)
(* exceeds that number, and a conversation that reaches it is finished.    *)
C2_BoundedTermination ==
    others = 0 =>
        /\ steps <= Len(members) + 1
        /\ (steps = Len(members) + 1 => pc = "done" /\ state.next = FINISH)

C2_Witness ==
    /\ others = 0
    /\ steps = Len(members) + 1
    /\ pc = "done"
    /\ state.next = FINISH
    /\ Cardinality(declined) > 1

(* C3: once every registered handler has authored a sentinel message in    *)
(* the conversation, the next Router step returns FINISH, whatever else    *)
(* the history has accumulated.                                            *)
C3_AllDeclinedFinishes ==
    (pc # "supervisor" /\ call.path # "none" /\ declined = MemberSet)
    => pc = "done" /\ state.next = FINISH

(* C4: every Router step that returns leaves next a registered handler id  *)
(* or FINISH, whatever the classifier answered.                            *)
C4_NextIsRegisteredOrFinish ==
    (Returned /\ call.path # "none") => state.next \in MemberSet \cup {FINISH}

(* C5: when the classifier result carries no parseable decision (no        *)
(* function call, no arguments, arguments that are not valid JSON, or a    *)
(* null answer) the Router step does not raise: it returns FINISH with the *)
(* "could not understand" message appended as a supervisor message.        *)
NoParseableDecision(raw) ==
    \/ raw.function_call \in {None, "empty", "no_arguments"}
    \/ raw.function_call = "arguments" /\ raw.json = "invalid"
    \/ raw.function_call = "arguments" /\ raw.json = "object" /\ raw.answer = None

C5_MalformedFinishes ==
    (pc # "supervisor" /\ call.classifier_invoked /\ NoParseableDecision(call.raw_output))
    => /\ ~Raised
       /\ state.next = FINISH
       /\ state.messages = call.classifier_input \o <<SupervisorSays(NotUnderstood)>>

(* C6: when the classifier's decision carries an answer that is not empty  *)
(* after trimming, the Router step appends exactly one supervisor message  *)
(* with that (trimmed) answer to the history it holds and returns FINISH,  *)
(* whatever the decision's next field is.                                  *)
C6_AnswerPrecedence ==
    (pc # "supervisor" /\ call.classifier_invoked
        /\ call.raw_output.function_call = "arguments"
        /\ call.raw_output.json = "object"
        /\ call.raw_output.answer \notin {Absent, None}
        /\ ~Blank(call.raw_output.answer))
    => /\ pc = "done"
       /\ state.next = FINISH
       /\ state.messages =
              call.arg_messages \o <<SupervisorSays(Trimmed(call.raw_output.answer))>>

C6_Witness ==
    /\ pc = "done"
    /\ call.path = "answer"
    /\ call.raw_output.next = "customer_support"
    /\ call.raw_output.answer = " Hi \n"
    /\ state.messages[Len(state.messages)] = SupervisorSays("Hi")
    /\ Len(call.in_messages) > 1

(* C7: the history a Router step returns has the complete input history as *)
(* a prefix, and the caller's input state still holds its complete history *)
(* after the call.                                                         *)
C7_HistoryKept ==
    (Returned /\ call.path # "none")
    => /\ IsPrefix(call.in_messages, state.messages)
       /\ call.arg_messages = call.in_messages

(* C8: on every Router step that reaches classification, the classifier is *)
(* given exactly the last min(5, n) messages of the n-message history, in  *)
(* their order; the most recent message is always among them.              *)
C8_ClassifierSeesTail ==
    call.classifier_invoked =>
        LET n == Len(call.in_messages)
            k == IF n < message_history THEN n ELSE message_history
        IN  /\ call.classifier_input = [i \in 1..k |-> call.in_messages[n - k + i]]
            /\ k >= 1
            /\ call.classifier_input[k] = call.in_messages[n]

C8_Witness ==
    /\ call.classifier_invoked
    /\ Len(call.in_messages) > message_history
    /\ Len(call.classifier_input) = message_history
    /\ call.classifier_input[1] = call.in_messages[2]

(* C9: the decline tally the Router computes equals the number of distinct *)
(* registered handlers that have declined with the sentinel, and lies      *)
(* between 0 and the number of registered handlers.                        *)
C9_TallyCountsDistinctHandlers ==
    call.tally_computed =>
        /\ call.not_me_count = Cardinality(Decliners(call.in_messages))
        /\ 0 <= call.not_me_count
        /\ call.not_me_count <= Len(members)

(* C10: a message counts towards the Router's decline tally exactly when   *)
(* its sender is a registered handler and its content is exactly the       *)
(* sentinel: the tally the Router computes, and the Router's count on any  *)
(* history a conversation reaches, is the number of such messages.         *)
C10_TallyScope ==
    /\ call.tally_computed =>
           call.not_me_count = Cardinality(SentinelMessages(call.in_messages))
    /\ not_me_count(state.messages) = Cardinality(SentinelMessages(state.messages))

\* a user message and a supervisor message that equal the sentinel, a handler
\* message that only contains it, and one that counts
C10_Witness ==
    /\ call.tally_computed
    /\ call.not_me_count = 1
    /\ \E i \in DOMAIN state.messages :
           state.messages[i] = [content |-> "NOT_ME", name |-> None]
    /\ \E i \in DOMAIN state.messages :
           state.messages[i] = [content |-> "NOT_ME", name |-> "supervisor"]
    /\ \E i \in DOMAIN call.in_messages :
           /\ call.in_messages[i].name = "sales_manager"
           /\ call.in_messages[i].content # "NOT_ME"
           /\ contains("NOT_ME", call.in_messages[i].content)

(* C11: when the most recent message of the input history is authored by   *)
(* a registered handler and embeds a routing instruction naming a          *)
(* registered peer X, the Router step returns next = X with the history    *)
(* unchanged and without invoking the classifier, for every peer X.        *)
NamesPeer(message, peer) ==
    /\ message.name \in MemberSet
    /\ peer \in MemberSet \ {message.name}
    /\ contains("next: " \o peer, message.content)

C11_HandoffToNamedPeer ==
    \A peer \in MemberSet :
        (pc # "supervisor" /\ call.path # "none"
            /\ NamesPeer(call.in_messages[Len(call.in_messages)], peer))
        => /\ Returned
           /\ state.next = peer
           /\ state.messages = call.in_messages
           /\ ~call.classifier_invoked

(* C12: when the classifier's decision has an empty answer and a           *)
(* registered handler as next, the Router step returns next = that handler *)
(* and a history equal to the input history: no message is appended.       *)
DelegatesTo(raw) ==
    /\ raw.function_call = "arguments"
    /\ raw.json = "object"
    /\ raw.answer = ""
    /\ raw.next \in MemberSet

C12_DelegationKeepsHistory ==
    (pc # "supervisor" /\ call.classifier_invoked /\ DelegatesTo(call.raw_output))
    => /\ Returned
       /\ state.next = call.raw_output.next
       /\ state.messages = call.in_messages

(* C13: every Router step that returns FINISH is a direct classifier       *)
(* answer, a decline tally at the threshold, a malformed classifier output *)
(* or an invalid delegation target, and appends a supervisor-authored      *)
(* message in that step: FINISH is never returned with the history         *)
(* unchanged.                                                              *)
ReturnedFinish == Returned /\ call.path # "none" /\ state.next = FINISH

AppendsSupervisorMessage(text) ==
    state.messages = call.arg_messages \o <<SupervisorSays(text)>>

FinishCause ==
    \/ Cardinality(SentinelMessages(call.in_messages)) >= Len(members)
    \/ /\ call.classifier_invoked
       /\ \/ NoParseableDecision(call.raw_output)
          \/ call.raw_output.answer # Absent /\ ~Blank(call.raw_output.answer)
          \/ call.raw_output.next \notin MemberSet

C13_FinishAppendsMessage ==
    ReturnedFinish
    => /\ FinishCause
       /\ \E text \in {ScopeApology, NotUnderstood, Trimmed(call.raw_output.answer)} :
              AppendsSupervisorMessage(text)
       /\ state.messages # call.in_messages

(* C13, amended: every Router step that returns FINISH either appends one  *)
(* supervisor message to the history it holds (the scope apology at the    *)
(* tally threshold, the "could not understand" message when the classifier *)
(* gave no function call or no arguments, the trimmed answer when the      *)
(* decision carries one) or carries out a classifier decision next =       *)
(* FINISH with an empty answer, which returns that history with no message *)
(* appended.                                                               *)
FinishDecided ==
    /\ call.classifier_invoked
    /\ call.raw_output.next = FINISH
    /\ call.raw_output.answer = Absent \/ Blank(call.raw_output.answer)

C13_FinishPaths ==
    ReturnedFinish
    => \/ /\ Cardinality(SentinelMessages(call.in_messages)) >= Len(members)
          /\ AppendsSupervisorMessage(ScopeApology)
       \/ /\ call.classifier_invoked
          /\ call.raw_output.function_call \in {None, "empty", "no_arguments"}
          /\ AppendsSupervisorMessage(NotUnderstood)
       \/ /\ call.classifier_invoked
          /\ call.raw_output.answer # Absent
          /\ ~Blank(call.raw_output.answer)
          /\ AppendsSupervisorMessage(Trimmed(call.raw_output.answer))
       \/ /\ FinishDecided
          /\ state.messages = call.arg_messages

C13_Witness ==
    /\ ReturnedFinish
    /\ FinishDecided
    /\ state.messages = call.arg_messages
    /\ state.messages[Len(state.messages)].name = "customer_support"

(* C14: every completed handler step extends the history by exactly one    *)
(* message whose sender is the id the handler is registered under in the   *)
(* graph, and leaves the earlier messages and their order unchanged.       *)
HandlerCompleted == pc = "supervisor" /\ steps > 0

HandlerFaulted == pc = "agent_raised"

C15_HandlerFailureContained ==
    /\ ~HandlerFaulted
    /\ HandlerCompleted =>
           LET last == state.messages[Len(state.messages)]
           IN  /\ last.name = state.next
               /\ last.content \notin {None, Absent}
               /\ Len(state.messages) = Len(call.arg_messages) + 1

(* C20: in any run of the graph the first step is a Router step, every     *)
(* handler step is followed by a Router step, every Router step is         *)
(* followed by the one handler step its next names or by termination when  *)
(* next = FINISH, and nothing runs after FINISH.                           *)
C20_RoutingAlternation ==
    /\ steps = 0 => pc = "supervisor" /\ Len(state.messages) = 1
    /\ pc \in {"supervisor", "agent", "done"}
    /\ pc = "agent" => state.next \in MemberSet \cup AgentNodes
    /\ pc = "done" <=> (steps > 0 /\ state.next = FINISH)
    /\ pc = "supervisor" /\ steps > 0 =>
           state.messages[Len(state.messages)].name = state.next

(* C16: in one dispatch call for an event bound to handlers [A, B], A is   *)
(* invoked and returns before B is invoked, each is invoked exactly once,  *)
(* no two handlers run at the same time, and B observes every state change *)
(* A made.                                                                 *)
LogEntry(event, handler, seen) == [event |-> event, handler |-> handler, seen |-> seen]

Invocations(handler) ==
    Cardinality({k \in DOMAIN ev.log :
                     ev.log[k].event = "call" /\ ev.log[k].handler = handler})

BoundKinds == DOMAIN BusinessAttribute

Finished == ev.pc \in {"returned", "raised"}

C17_RecognizedEventsHandled ==
    \A kind \in BoundKinds :
        (Finished /\ ev.event_type = EventType[kind]
            /\ JsonKind(ev.payload_json) = "object")
        => /\ ev.dispatcher # None
           /\ Len(ev.log) >= 3
           /\ ev.log[1].event = "call"
           /\ ev.log[1].handler = BusinessAttribute[kind]
           /\ ev.log[3].event = "call"
           /\ ev.log[3].handler = "handle_email_notification"
           /\ Invocations(BusinessAttribute[kind]) = 1
           /\ Invocations("handle_email_notification") = 1
           /\ Invocations("handle_default") = 0

(* C18: dispatching an event type that has no entry in the routing table   *)
(* invokes only the default handler, exactly once: no conversation is      *)
(* started on the graph and no notification is sent.                       *)
C18_UnknownEventDefaults ==
    (ev.pc \in {"loop", "in_handler", "returned", "raised"}
        /\ ev.event_type \notin DOMAIN RoutesDeclared)
    => /\ \A k \in DOMAIN ev.log : ev.log[k].handler = "handle_default"
       /\ Invocations("handle_default") <= 1
       /\ ev.effects = <<>>
       /\ ev.pc # "raised"
       /\ ev.pc = "returned" =>
              ev.log = <<LogEntry("call", "handle_default", <<>>),
                         LogEntry("return", "handle_default", <<>>)>>

C18_Witness ==
    /\ ev.pc = "returned"
    /\ ev.event_type = "unknown event"
    /\ Invocations("handle_default") = 1
    /\ Len(ev.log) = 2

(* C19: when process_event receives a payload that is not valid JSON it    *)
(* returns an error result, constructs no dispatcher, invokes no handler   *)
(* and does not raise.                                                     *)
C19_DecodeFailureReturnsError ==
    (JsonKind(ev.payload_json) = "invalid" /\ ev.pc # "process_event")
    => /\ ev.pc = "returned"
       /\ ev.result = "error: Invalid JSON payload"
       /\ ev.raised = None
       /\ ev.graph = None
       /\ ev.dispatcher = None
       /\ ev.log = <<>>

C19_Witness ==
    /\ ev.pc = "returned"
    /\ ev.payload_json = "{\"message\": "
    /\ ev.event_type = "ticket create"
    /\ ev.result = "error: Invalid JSON payload"

(* C21: a Router step changes only the history (at most one message        *)
(* appended) and next: the communication-mode tag of the state it returns  *)
(* equals that of its input state on every path.                           *)
RouterReturns == pc = "supervisor" /\ pc' \in {"agent", "done", "fault"}

C21_ModePreserved ==
    [][RouterReturns =>
           /\ state'.communication_type = state.communication_type
           /\ Len(state'.messages) <= Len(state.messages) + 1
           /\ DOMAIN state' = DOMAIN state]_vars

(* C22: for any interleaving of the steps of two conversations run at the  *)
(* same time, a step of one leaves the other's history, next and mode      *)
(* unchanged, and each history holds only its own conversation's messages. *)
Stepped(run) ==
    runs'[run].pc # runs[run].pc \/ runs'[run].steps # runs[run].steps

Foreign(run) ==
    LET other_run == 3 - run
    IN  {InputData[other_run].messages[1].content}
        \cup {reply.output : reply \in RepliesConcurrent[other_run] \ {Decline}}

C22_ConversationIsolation ==
    [][\A run \in {1, 2} :
           /\ ~Stepped(run) => runs'[run].state = runs[run].state
           /\ \A k \in DOMAIN runs'[run].state.messages :
                  runs'[run].state.messages[k].content \notin Foreign(run)]_vars

C22_Witness ==
    /\ runs # NoRuns
    /\ runs[1].steps = 2 /\ runs[2].steps = 2
    /\ \E k \in DOMAIN runs[1].state.messages :
           runs[1].state.messages[k].content = "console: your ticket is open"
    /\ \E k \in DOMAIN runs[2].state.messages :
           runs[2].state.messages[k].content = "email: the invoice is corrected"

(* C23: for a conversation entering through process_incoming_email, any    *)
(* fault raised while running the graph results in exactly one apology     *)
(* email sent to the original sender, and no fault propagates to the       *)
(* listener loop.                                                          *)
GraphFaulted == mail.pc # "idle" /\ mail.graph.kind = "raise"

EmailsSent == SelectSeq(mail.attempts, LAMBDA m : m.accepted)

Apology(accepted) ==
    [to |-> mail.sender, subject |-> "Re: " \o mail.subject,
     body |-> ErrorMessage, accepted |-> accepted]

C23_FaultSendsOneApology ==
    GraphFaulted =>
        /\ mail.pc # "raised"
        /\ mail.pc = "returned" => EmailsSent = <<Apology(TRUE)>>

(* C23, amended: any fault raised while running the graph results in       *)
(* exactly one attempt to send the apology to the original sender (the     *)
(* email is sent when the mail server accepts it; a failed send is logged  *)
(* and swallowed), and no fault propagates to the listener loop.           *)
C23_FaultAttemptsOneApology ==
    GraphFaulted =>
        /\ mail.pc # "raised"
        /\ mail.raised = None
        /\ mail.pc = "returned" =>
               /\ \E accepted \in BOOLEAN : mail.attempts = <<Apology(accepted)>>
               /\ Len(EmailsSent) <= 1

C23_Witness ==
    /\ mail.pc = "returned"
    /\ mail.graph.kind = "raise"
    /\ mail.graph.exception = "KeyError"
    /\ mail.attempts = <<Apology(FALSE)>>

(* C24: for every customer message and every LLM reply (a recognized       *)
(* command, an unrecognized format, a failed call) process_message returns *)
(* a result of type function_call or text_response; when the reply matches *)
(* no known format the result is the text_response fallback, and           *)
(* process_text_internal then returns success = true with that text and    *)
(* calls no e-commerce function.                                           *)
Classified == bot.pc \in {"execute", "save", "returned"} /\ bot.reply.kind # "none"

Unrecognized(reply) ==
    /\ reply.kind = "content"
    /\ reply.content # None
    /\ LET text == Trimmed(reply.content)
       IN  /\ text \notin {"CART", "STATUS"}
           /\ \A command \in {"SEARCH:", "ADD:", "REMOVE:", "ORDER:", "CHAT:"} :
                  ~(Len(text) >= Len(command) /\ SubSeq(text, 1, Len(command)) = command)

C24_TextProcessingTotal ==
    Classified =>
        /\ bot.llm_result.type \in {"function_call", "text_response"}
        /\ bot.llm_result.type = "function_call" <=> bot.llm_result.function # None
        /\ bot.reply.kind = "raise" => bot.llm_result.type = "text_response"
        /\ Unrecognized(bot.reply) =>
               /\ bot.llm_result.type = "text_response"
               /\ bot.llm_result.response = NotSure
               /\ bot.calls = <<>>
               /\ bot.pc = "returned" =>
                      bot.result = Response(TRUE, NotSure, None, "text_response")

C24_Witness ==
    /\ bot.pc = "returned"
    /\ bot.message = "blah blah nonsense"
    /\ bot.reply = LLMReply("content", "I could SEARCH:phone for you")
    /\ bot.result.success
    /\ bot.result.response = NotSure
    /\ bot.calls = <<>>

(* C25: the supervisor node of the graph built by build_graph behaves as   *)
(* supervisor_node, so every supervisor step of a graph run yields a state *)
(* whose next is a key of the graph's conditional routing map.             *)
C25_GraphUsesRouter ==
    steps > 0 =>
        /\ pc # "raised"
        /\ call.path \in {"handoff", "loop", "malformed", "answer", "route"}
        /\ state.next \in DOMAIN conditional_map

(* C26: every handler id in members is a node of the graph built by        *)
(* build_graph and a key of its conditional routing map, and every handler *)
(* node's messages are authored under an id that is in members; hence      *)
(* every Delegate decision the Router returns is followed by that          *)
(* handler's step, and every handler decline is counted by the loop check. *)
C26_RegistryConsistent ==
    /\ \A member \in MemberSet :
           member \in AgentNodes /\ member \in DOMAIN conditional_map
    /\ \A node \in AgentNodes : NodeName[node] \in MemberSet
    /\ pc = "fault" => state.next \notin MemberSet
    /\ declined \subseteq MemberSet

(* C27: every state an Event Dispatcher business handler passes to the     *)
(* graph, for every bound event kind, carries a non-empty history in the   *)
(* state's history field "messages" (the one the Router reads) and is      *)
(* tagged with the asynchronous communication mode value.                  *)
ASYNC_QUEUE == "CommunicationType.ASYNC_QUEUE"

StartsConversation == DOMAIN ev.graph_input # {}

C27_DispatcherStatesWellFormed ==
    StartsConversation =>
        /\ "messages" \in DOMAIN ev.graph_input
        /\ Len(ev.graph_input["messages"]) > 0
        /\ "communication_type" \in DOMAIN ev.graph_input
        /\ ev.graph_input["communication_type"] = ASYNC_QUEUE

(* C28: if a handler bound to an event raises during dispatch, the fault   *)
(* propagates out of dispatch and no later handler of that event's list is *)
(* invoked in that dispatch call; a failing business handler suppresses    *)
(* that event's notification.                                              *)
RaisedAt ==
    {k \in DOMAIN ev.log : ev.log[k].event = "raise"}

C28_DispatchFaultPropagates ==
    \A k \in RaisedAt :
        /\ k = Len(ev.log)
        /\ ev.pc = "raised"
        /\ ev.raised # None
        /\ HandlerKind(ev.log[k].handler) = "business" =>
               /\ Invocations("handle_email_notification") = 0
               /\ \A j \in DOMAIN ev.effects : ev.effects[j] # "notification"

C28_Witness ==
    /\ ev.pc = "raised"
    /\ ev.event_type = Member("TICKET_CREATE")
    /\ HasRecipient(ev.payload_json)
    /\ ev.log = <<LogEntry("call", "handle_ticket_create_agent", <<>>),
                  LogEntry("raise", "handle_ticket_create_agent", <<>>)>>
    /\ ev.effects = <<>>

(* C29: the business handler bound to each ticket event kind starts its    *)
(* conversation targeted at technical_support, and the business handler    *)
(* bound to each opportunity event kind starts it targeted at              *)
(* sales_manager.                                                          *)
KindsOf(domain) ==
    {Member(kind) : kind \in {k \in BoundKinds : SubSeq(k, 1, Len(domain)) = domain}}

C29_EventToDomainRouting ==
    StartsConversation =>
        /\ ev.event_type \in KindsOf("TICKET") =>
               ev.graph_input["next"] = "technical_support"
        /\ ev.event_type \in KindsOf("OPPORTUNITY") =>
               ev.graph_input["next"] = "sales_manager"

(* C30: for any interleaving of two confirm_order calls by different       *)
(* customers whose carts hold the same product, the product's              *)
(* stock_quantity never becomes negative and the total quantity placed in  *)
(* orders for it never exceeds its initial stock; and a confirm_order that *)
(* returns success = false leaves orders, stock and cart unchanged.        *)
C30_NoOverselling ==
    shop.pc = "serving" =>
        /\ shop.stock_quantity >= 0
        /\ shop.order_items[1] + shop.order_items[2] <= shop.initial_stock
        /\ \A c \in Customers :
               shop.at[c] = "failed" =>
                   /\ shop.orders[c] = 0
                   /\ shop.order_items[c] = 0
                   /\ shop.cart[c] = shop.quantity[c]

====
